---- MODULE Spec2Model ----
(***************************************************************************)
(* Model of the cooking-recommendation bot of src/main.py: the four        *)
(* in-memory maps (paid_users, free_attempts, last_request_time,           *)
(* last_response_cache), the per-user FSM storage of the preference        *)
(* dialogue, and one action per router handler.  Handlers are taken one    *)
(* at a time (each action is a whole handler run), and a handler run reads  *)
(* one value of the clock: the two datetime.now() calls of one run are the  *)
(* same instant.  The clock only moves forward.                             *)
(*                                                                         *)
(* Strings are sequences of tokens: a keyword, a digit, a separator or a   *)
(* dish field is one token, so that prefix tests and substring tests are   *)
(* computed and not assumed.                                               *)
(***************************************************************************)
EXTENDS Integers, Sequences, FiniteSets, Bags, TLC

VARIABLES
    now,                 \* wall clock, seconds since midnight (datetime.now())
    DISHES,              \* the catalog imported from dishes.py (never mutated)
    paid_users,          \* set of user ids
    free_attempts,       \* dict user id -> int
    last_request_time,   \* dict user id -> time
    last_response_cache, \* dict user id -> <<text, time>>
    fsm_state,           \* FSM storage: user id -> state name
    fsm_data,            \* FSM storage: user id -> dict
    tasks,               \* the handler tasks in flight: position and local variables
    cycle,               \* history: how far the user is in request -> health -> diet
    hist,                \* history: the passes of the rate limiter and the free attempts used
    last                 \* history: the event handled by the last step and its replies

vars == <<now, DISHES, paid_users, free_attempts, last_request_time,
          last_response_cache, fsm_state, fsm_data, tasks, cycle, hist, last>>

store == <<paid_users, free_attempts, last_request_time, last_response_cache,
           fsm_state, fsm_data>>

-----------------------------------------------------------------------------
(* Bounds of the model *)

StartTime == 71940      \* 19:59:00, so that the clock hour changes during a run
Horizon == 360          \* seconds of wall clock explored after StartTime

\* One user id: every map is keyed by the user id and no handler reads or writes
\* the entry of another user.
Users == {1}

\* The instants at which events arrive, chosen so that delays of 0 s, 59 s, 60 s,
\* 299 s and 300 s between two events all occur, and the clock hour changes.
Offsets == {0, 59, 60, 120} \cup 359..Horizon

Instants == { StartTime + o : o \in Offsets }

(* Program constants *)

RATE_LIMIT == 60        \* timedelta(minutes=1)
CACHE_TTL == 300        \* timedelta(minutes=5)
MAX_DISHES == 3         \* filtered[:3]

-----------------------------------------------------------------------------
(* Generic helpers for dicts and token strings *)

Get(d, k, default) == IF k \in DOMAIN d THEN d[k] ELSE default

Put(d, k, v) == [x \in DOMAIN d \cup {k} |-> IF x = k THEN v ELSE d[x]]

Pop(d, k) == [x \in DOMAIN d \ {k} |-> d[x]]

Take(s, n) == SubSeq(s, 1, IF Len(s) < n THEN Len(s) ELSE n)

StartsWith(s, p) == Len(p) <= Len(s) /\ SubSeq(s, 1, Len(p)) = p

OccursAt(s, p, i) == i + Len(p) - 1 <= Len(s) /\ SubSeq(s, i, i + Len(p) - 1) = p

Contains(s, p) == \E i \in 1..Len(s) : OccursAt(s, p, i)

\* str.replace(old, "", 1): remove the first occurrence of old, if any
ReplaceFirst(s, old) ==
    IF Contains(s, old)
    THEN LET i == CHOOSE j \in 1..Len(s) :
                     OccursAt(s, old, j) /\ \A k \in 1..(j - 1) : ~OccursAt(s, old, k)
         IN  SubSeq(s, 1, i - 1) \o SubSeq(s, i + Len(old), Len(s))
    ELSE s

RECURSIVE FilterSeq(_, _)
FilterSeq(s, keep) ==
    IF s = <<>> THEN <<>>
    ELSE (IF keep[Head(s)] THEN <<Head(s)>> ELSE <<>>) \o FilterSeq(Tail(s), keep)

Range(s) == {s[i] : i \in 1..Len(s)}

-----------------------------------------------------------------------------
(* Dish catalog.  A dish is a record name, recipe, time, healthy, diet. *)

Dish(n, t, h, d) == [name |-> n, recipe |-> "recipe", time |-> t, healthy |-> h, diet |-> d]

Catalog ==
    << Dish("omelette", "breakfast", FALSE, "meat"),
       Dish("porridge", "breakfast", TRUE, "veg"),
       Dish("syrniki", "breakfast", FALSE, "veg"),
       Dish("granola", "breakfast", TRUE, "veg"),
       Dish("borscht", "lunch", FALSE, "meat"),
       Dish("ukha", "lunch", TRUE, "fish"),
       Dish("steak", "dinner", FALSE, "meat"),
       Dish("salmon", "dinner", TRUE, "fish"),
       Dish("ragout", "dinner", TRUE, "veg"),
       Dish("pelmeni", "dinner", FALSE, "meat") >>

-----------------------------------------------------------------------------
(* Time parsing *)

\* variant: lunch starting after 10 instead of at 10
get_time_category_late_lunch(hour) ==
    IF 5 <= hour /\ hour <= 10 THEN "breakfast"
    ELSE IF 10 <= hour /\ hour < 18 THEN "lunch"
    ELSE "dinner"

get_time_category(hour) ==
    IF 5 <= hour /\ hour < 10 THEN "breakfast"
    ELSE IF 10 <= hour /\ hour < 18 THEN "lunch"
    ELSE "dinner"

DigitTokens == {"0", "1", "2", "3", "4", "5", "6", "7", "8", "9"}

DigitVal(c) ==
    CASE c = "0" -> 0 [] c = "1" -> 1 [] c = "2" -> 2 [] c = "3" -> 3 [] c = "4" -> 4
      [] c = "5" -> 5 [] c = "6" -> 6 [] c = "7" -> 7 [] c = "8" -> 8 [] c = "9" -> 9

DigitTok(n) ==
    CASE n = 0 -> "0" [] n = 1 -> "1" [] n = 2 -> "2" [] n = 3 -> "3" [] n = 4 -> "4"
      [] n = 5 -> "5" [] n = 6 -> "6" [] n = 7 -> "7" [] n = 8 -> "8" [] n = 9 -> "9"

\* str(int) for 0..99
IntStr(n) == IF n < 10 THEN <<DigitTok(n)>> ELSE <<DigitTok(n \div 10), DigitTok(n % 10)>>

\* str.lower() on the tokens that have an upper-case form
LowerTok(t) ==
    CASE t = "Uzhin" -> "uzhin" [] t = "Zavtrak" -> "zavtrak" [] t = "Obed" -> "obed"
      [] OTHER -> t

Lower(text) == [i \in 1..Len(text) |-> LowerTok(text[i])]

\* The three keyword lists of parse_hour_from_text, each word as its tokens
\* in Latin transliteration ("utrom" is "utro" followed by "m", so that "utro" is a substring of it).
MorningWords ==
    { <<"utro">>, <<"zavtrak">>, <<"utro", "m">>, <<"s", " ", "utra">>, <<"rano">>,
      <<"8">>, <<"9">> }

MiddayWords ==
    { <<"obed">>, <<"dnyom">>, <<"dnem">> } \cup { IntStr(n) : n \in 10..17 }

EveningWords ==
    { <<"uzhin">>, <<"vecher">>, <<"noch">>, <<"seychas">>, <<"pozdno">> }
        \cup { IntStr(n) : n \in 18..23 } \cup { IntStr(n) : n \in 0..7 }

AnyIn(words, text) == \E w \in words : Contains(text, w)

ClockHour == (now \div 3600) % 24

\* re.search(r'(\d{1,2})', text): the first digit and the digit after it, if any
FirstNumber(text) ==
    LET i == CHOOSE j \in 1..Len(text) :
                 text[j] \in DigitTokens /\ \A k \in 1..(j - 1) : text[k] \notin DigitTokens
    IN  IF i < Len(text) /\ text[i + 1] \in DigitTokens
        THEN 10 * DigitVal(text[i]) + DigitVal(text[i + 1])
        ELSE DigitVal(text[i])

parse_hour_from_text(message_text) ==
    LET text == Lower(message_text) IN
    IF AnyIn(MorningWords, text) THEN 8
    ELSE IF AnyIn(MiddayWords, text) THEN 13
    ELSE IF AnyIn(EveningWords, text) THEN 19
    ELSE IF (\E j \in 1..Len(text) : text[j] \in DigitTokens)
            /\ 0 <= FirstNumber(text) /\ FirstNumber(text) <= 23
         THEN FirstNumber(text)
    ELSE ClockHour

-----------------------------------------------------------------------------
(* Dish selector *)

\* variant: the fallback list without the "d not in filtered" test
filter_dishes_fallback_repeats(hour, healthy, diet) ==
    LET time_cat == get_time_category(hour)
        filtered == FilterSeq(DISHES,
                        [d \in Range(DISHES) |->
                            /\ d.time = time_cat
                            /\ d.healthy = healthy
                            /\ (diet = "any" \/ d.diet = diet)])
        fallback == FilterSeq(DISHES, [d \in Range(DISHES) |-> d.time = time_cat])
    IN  Take(IF Len(filtered) < MAX_DISHES THEN filtered \o fallback ELSE filtered,
             MAX_DISHES)

\* variant: the exact matches only, no fallback list
filter_dishes_exact_only(hour, healthy, diet) ==
    LET time_cat == get_time_category(hour)
        filtered == FilterSeq(DISHES,
                        [d \in Range(DISHES) |->
                            /\ d.time = time_cat
                            /\ d.healthy = healthy
                            /\ (diet = "any" \/ d.diet = diet)])
    IN  Take(filtered, MAX_DISHES)

filter_dishes(hour, healthy, diet) ==
    LET time_cat == get_time_category(hour)
        filtered == FilterSeq(DISHES,
                        [d \in Range(DISHES) |->
                            /\ d.time = time_cat
                            /\ d.healthy = healthy
                            /\ (diet = "any" \/ d.diet = diet)])
        fallback == FilterSeq(DISHES,
                        [d \in Range(DISHES) |->
                            d.time = time_cat /\ d \notin Range(filtered)])
    IN  Take(IF Len(filtered) < MAX_DISHES THEN filtered \o fallback ELSE filtered,
             MAX_DISHES)

-----------------------------------------------------------------------------
(* Reply texts *)

WAIT_NOTICE == <<"WAIT: Podozhdite 1 minutu mezhdu zaprosami.">>
PAY_PROMPT == <<"PAY: Razblokiruyte polnyy dostup za 299 RUB">>
HEALTH_PROMPT == <<"Vy na pravilnom pitanii?">>
DIET_PROMPT == <<"A chto predpochitaete?">>
START_TEXT == <<"Privet!">>
PAID_TEXT == <<"Dostup navsegda aktivirovan!">>
REPLY_HEADER == <<"Vot idei s retseptami:">>
UPSELL_SUFFIX == <<"Bolshe retseptov - za 299 RUB navsegda!">>
CACHE_MARK == <<"KESH:">>
CACHE_SEP == <<"||">>

RECURSIVE render_dishes(_)
render_dishes(dishes) ==
    IF dishes = <<>> THEN <<>>
    ELSE <<"*", Head(dishes).name, Head(dishes).recipe>> \o render_dishes(Tail(dishes))

PyBool(b) == IF b THEN "True" ELSE "False"

\* f"{hour}_{healthy}_{diet}"
make_cache_key(hour, healthy, diet) == IntStr(hour) \o <<"_", PyBool(healthy), "_", diet>>

-----------------------------------------------------------------------------
(* Inputs *)

EmptyDict == [k \in {} |-> 0]

Texts ==
    { <<"chto", "uzhin", "?">>,            \* evening keyword
      <<"retsept", "zavtrak">>,            \* morning keyword
      <<"Obed">>,                          \* midday keyword, upper case
      <<"chto", "prigotovit", "?">>,       \* no keyword, no digit: clock hour
      <<"v", "1", "9", ":", "0", "0">> }   \* the /start example

TimeButtons == {"suggest_breakfast", "suggest_lunch", "suggest_dinner"}
HealthButtons == {"healthy_yes", "healthy_no"}
DietButtons == {"diet_meat", "diet_fish", "diet_veg"}

time_map(data) ==
    CASE data = "suggest_breakfast" -> 8
      [] data = "suggest_lunch" -> 13
      [] data = "suggest_dinner" -> 19

diet_map(data) ==
    CASE data = "diet_meat" -> "meat"
      [] data = "diet_fish" -> "fish"
      [] data = "diet_veg" -> "veg"

-----------------------------------------------------------------------------
(* handle_cooking_internal and the checks it is made of *)

\* variant: the comparison written <= instead of <
is_rate_limited_inclusive(user_id) ==
    /\ user_id \in DOMAIN last_request_time
    /\ now - last_request_time[user_id] <= RATE_LIMIT

\* is_rate_limited: the value returned
is_rate_limited(user_id) ==
    /\ user_id \in DOMAIN last_request_time
    /\ now - last_request_time[user_id] < RATE_LIMIT

\* variant: the timestamp recorded before the check instead of after it
rate_limit_record_always(user_id) == Put(last_request_time, user_id, now)

\* variant: the timestamp never recorded
rate_limit_record_never(user_id) == last_request_time

\* is_rate_limited: last_request_time after the call
rate_limit_record(user_id) ==
    IF is_rate_limited(user_id)
    THEN last_request_time
    ELSE Put(last_request_time, user_id, now)

\* variant: two free attempts instead of one
quota_exceeded_late(user_id) ==
    /\ user_id \notin paid_users
    /\ Get(free_attempts, user_id, 0) >= 2

\* the quota check turns the request away
quota_exceeded(user_id) ==
    /\ user_id \notin paid_users
    /\ Get(free_attempts, user_id, 0) >= 1

\* variant: the counter incremented for paid users too
quota_consume_everyone(user_id) ==
    Put(free_attempts, user_id, Get(free_attempts, user_id, 0) + 1)

\* free_attempts after a request that passed the quota check
quota_consume(user_id) ==
    IF user_id \notin paid_users
    THEN Put(free_attempts, user_id, Get(free_attempts, user_id, 0) + 1)
    ELSE free_attempts

needs_preferences(data) == "healthy" \notin DOMAIN data \/ "diet" \notin DOMAIN data

\* variant: the key left out of the prefix test
cache_hit_any_key(user_id, cache_key) ==
    /\ user_id \in paid_users
    /\ user_id \in DOMAIN last_response_cache
    /\ now - last_response_cache[user_id][2] < CACHE_TTL
    /\ StartsWith(last_response_cache[user_id][1], CACHE_MARK)

cache_hit(user_id, cache_key) ==
    /\ user_id \in paid_users
    /\ user_id \in DOMAIN last_response_cache
    /\ now - last_response_cache[user_id][2] < CACHE_TTL
    /\ StartsWith(last_response_cache[user_id][1], CACHE_MARK \o cache_key)

\* variant: the cache marker not removed from the reply
cached_reply_unstripped(cached_resp, cache_key) == cached_resp

\* the reply sent on a cache hit
cached_reply(cached_resp, cache_key) ==
    ReplaceFirst(cached_resp, CACHE_MARK \o cache_key \o CACHE_SEP)

\* the dishes listed: filter_dishes with the single retry
pick_dishes(hour, healthy, diet) ==
    LET dishes == filter_dishes(hour, healthy, diet) IN
    IF dishes = <<>> THEN Take(filter_dishes(hour, TRUE, "any"), MAX_DISHES) ELSE dishes

selector_calls(hour, healthy, diet) ==
    IF filter_dishes(hour, healthy, diet) = <<>> THEN 2 ELSE 1

\* the reply text of a fresh recommendation
make_reply(user_id, dishes) ==
    REPLY_HEADER \o render_dishes(dishes)
        \o (IF user_id \notin paid_users THEN UPSELL_SUFFIX ELSE <<>>)

\* last_response_cache after a fresh recommendation
cache_store(user_id, cache_key, reply) ==
    IF user_id \notin paid_users
    THEN last_response_cache
    ELSE Put(last_response_cache, user_id,
             <<CACHE_MARK \o cache_key \o CACHE_SEP \o reply, now>>)

\* What one run of handle_cooking_internal does, given the FSM data it reads:
\* the maps after the run, whether the session is moved to asking_health, the
\* replies sent, and which branch was taken.
Outcome(branch, lrt, free, cache, replies, calls) ==
    [branch |-> branch, lrt |-> lrt, free |-> free, cache |-> cache,
     replies |-> replies, calls |-> calls]

handle_cooking_internal(user_id, hour, data) ==
    IF is_rate_limited(user_id)
    THEN Outcome("limited", rate_limit_record(user_id), free_attempts,
                 last_response_cache, <<WAIT_NOTICE>>, 0)
    ELSE IF quota_exceeded(user_id)
    THEN Outcome("must_pay", rate_limit_record(user_id), free_attempts,
                 last_response_cache, <<PAY_PROMPT>>, 0)
    ELSE IF needs_preferences(data)
    THEN Outcome("ask", rate_limit_record(user_id), quota_consume(user_id),
                 last_response_cache, <<HEALTH_PROMPT>>, 0)
    ELSE LET cache_key == make_cache_key(hour, data.healthy, data.diet) IN
         IF cache_hit(user_id, cache_key)
         THEN Outcome("hit", rate_limit_record(user_id), quota_consume(user_id),
                      last_response_cache,
                      <<cached_reply(last_response_cache[user_id][1], cache_key)>>, 0)
         ELSE LET reply == make_reply(user_id, pick_dishes(hour, data.healthy, data.diet))
              IN  Outcome("fresh", rate_limit_record(user_id), quota_consume(user_id),
                          cache_store(user_id, cache_key, reply), <<reply>>,
                          selector_calls(hour, data.healthy, data.diet))

\* The record kept of the last event: which event of which user, whether a handler
\* accepted it, the hour and FSM data handle_cooking_internal was given, the branch
\* it took, the replies sent and the number of filter_dishes calls.
Event(ev, user_id, handled, hour, data, branch, replies, calls) ==
    [ev |-> ev, user |-> user_id, handled |-> handled, hour |-> hour, data |-> data,
     branch |-> branch, replies |-> replies, calls |-> calls]

\* a cooking request from a text or a time button: the effect on the state
CookingRequest(ev, user_id, hour) ==
    \E r \in {handle_cooking_internal(user_id, hour, fsm_data[user_id])} :
    /\ last_request_time' = r.lrt
    /\ free_attempts' = r.free
    /\ last_response_cache' = r.cache
    /\ fsm_state' = IF r.branch = "ask"
                    THEN [fsm_state EXCEPT ![user_id] = "asking_health"]
                    ELSE fsm_state
    /\ fsm_data' = IF r.branch = "ask"
                   THEN [fsm_data EXCEPT ![user_id] = Put(@, "pending_hour", hour)]
                   ELSE fsm_data
    /\ cycle' = [cycle EXCEPT ![user_id] = IF r.branch = "ask" THEN "req" ELSE "none"]
    /\ last' = Event(ev, user_id, TRUE, hour, fsm_data[user_id], r.branch, r.replies, r.calls)
    /\ UNCHANGED <<now, DISHES, tasks, hist, paid_users>>

-----------------------------------------------------------------------------
(* The handlers *)

NoHour == 0 - 1

\* @router.message(Command("start"))
cmd_start(user_id) ==
    /\ cycle' = [cycle EXCEPT ![user_id] = "none"]
    /\ last' = Event("start", user_id, TRUE, NoHour, EmptyDict, "none", <<START_TEXT>>, 0)
    /\ UNCHANGED <<now, DISHES, tasks, hist, store>>

\* @router.message(F.text)
handle_cooking_query(user_id, text) ==
    \E hour \in {parse_hour_from_text(text)} : CookingRequest("text", user_id, hour)

\* @router.callback_query(F.data.startswith("suggest_"))
handle_time_suggestion(user_id, data) ==
    CookingRequest("suggest", user_id, time_map(data))

\* variant: process_health registered without its state filter
health_filter_missing(user_id) == TRUE

\* the state filters of the two preference handlers
health_filter(user_id) == fsm_state[user_id] = "asking_health"

diet_filter(user_id) == fsm_state[user_id] = "asking_diet"

\* a callback query no handler accepts: the dispatcher drops it
unhandled(ev, user_id) ==
    /\ cycle' = [cycle EXCEPT ![user_id] = "none"]
    /\ last' = Event(ev, user_id, FALSE, NoHour, EmptyDict, "none", <<>>, 0)
    /\ UNCHANGED <<now, DISHES, tasks, hist, store>>

\* @router.callback_query(UserPreferences.asking_health, F.data.startswith("healthy_"))
process_health(user_id, data) ==
    /\ fsm_data' = [fsm_data EXCEPT ![user_id] = Put(@, "healthy", data = "healthy_yes")]
    /\ fsm_state' = [fsm_state EXCEPT ![user_id] = "asking_diet"]
    /\ cycle' = [cycle EXCEPT ![user_id] = IF @ = "req" THEN "health" ELSE "none"]
    /\ last' = Event("health", user_id, TRUE, NoHour, EmptyDict, "none", <<DIET_PROMPT>>, 0)
    /\ UNCHANGED <<now, DISHES, tasks, hist, paid_users, free_attempts, last_request_time,
                   last_response_cache>>

\* state.clear(): the state name and the data of the user after it
clear_state(user_id) == [fsm_state EXCEPT ![user_id] = "None"]

\* variant: set_state(None) instead of clear(), which keeps the data
clear_data_kept(user_id) == fsm_data

clear_data(user_id) == [fsm_data EXCEPT ![user_id] = EmptyDict]

\* @router.callback_query(UserPreferences.asking_diet, F.data.startswith("diet_"))
process_diet(user_id, data) ==
    \E updated \in {Put(fsm_data[user_id], "diet", diet_map(data))} :
    \E hour \in {Get(updated, "pending_hour", ClockHour)} :
    \E r \in {handle_cooking_internal(user_id, hour, updated)} :
        /\ last_request_time' = r.lrt
        /\ free_attempts' = r.free
        /\ last_response_cache' = r.cache
        /\ fsm_state' = clear_state(user_id)
        /\ fsm_data' = clear_data(user_id)
        /\ cycle' = [cycle EXCEPT ![user_id] = IF @ = "health" THEN "diet" ELSE "none"]
        /\ last' = Event("diet", user_id, TRUE, hour, updated, r.branch, r.replies, r.calls)
        /\ UNCHANGED <<now, DISHES, tasks, hist, paid_users>>

\* buy_access on the three maps it touches
Maps == [paid |-> paid_users, free |-> free_attempts, cache |-> last_response_cache]

\* variant: the free-attempt counter left in place on payment
buy_access_keeps_counter(user_id, m) ==
    IF user_id \in m.paid
    THEN m
    ELSE [paid |-> m.paid \cup {user_id},
          free |-> m.free,
          cache |-> Pop(m.cache, user_id)]

\* variant: no early return for a user who has paid already
buy_access_unguarded(user_id, m) ==
    [paid |-> m.paid \cup {user_id},
     free |-> Pop(m.free, user_id),
     cache |-> Pop(m.cache, user_id)]

buy_access(user_id, m) ==
    IF user_id \in m.paid
    THEN m
    ELSE [paid |-> m.paid \cup {user_id},
          free |-> Pop(m.free, user_id),
          cache |-> Pop(m.cache, user_id)]

-----------------------------------------------------------------------------
(* Handler tasks. The dispatcher starts every update as a task of its own   *)
(* (start_polling, main.py:248); a task runs until an await and is resumed  *)
(* later, so the tasks of one user interleave at the awaits.                *)

MaxTasks == 2

Task(kind, user_id, pc, hour, data) ==
    [kind |-> kind, user |-> user_id, pc |-> pc, hour |-> hour, data |-> data]

\* no task: what a handler that returned leaves behind
Idle == Task("idle", 0, "none", 0 - 1, << >>)
NoTasks == EmptyBag

NoHistory == [passed_at |-> [u \in Users |-> <<>>], consumed |-> [u \in Users |-> 0]]

-----------------------------------------------------------------------------
(* The state machine *)

Init ==
    /\ now = StartTime
    /\ DISHES = Catalog
    /\ paid_users = {}
    /\ free_attempts = EmptyDict
    /\ last_request_time = EmptyDict
    /\ last_response_cache = EmptyDict
    /\ fsm_state = [u \in Users |-> "None"]
    /\ fsm_data = [u \in Users |-> EmptyDict]
    /\ cycle = [u \in Users |-> "none"]
    /\ tasks = NoTasks
    /\ hist = NoHistory
    /\ last = Event("init", 0, FALSE, NoHour, EmptyDict, "none", <<>>, 0)

Tick ==
    \E t \in Instants :
        /\ t > now
        /\ now' = t
        /\ last' = Event("tick", 0, FALSE, NoHour, EmptyDict, "none", <<>>, 0)
        /\ UNCHANGED <<DISHES, tasks, hist, store, cycle>>

StartCommand == \E u \in Users : cmd_start(u)

TextMessage == \E u \in Users, text \in Texts : handle_cooking_query(u, text)

TimeSuggestion == \E u \in Users, data \in TimeButtons : handle_time_suggestion(u, data)

HealthAnswer ==
    \E u \in Users, data \in HealthButtons :
        IF health_filter(u) THEN process_health(u, data) ELSE unhandled("health", u)

DietAnswer ==
    \E u \in Users, data \in DietButtons :
        IF diet_filter(u) THEN process_diet(u, data) ELSE unhandled("diet", u)

BuyAccess ==
    \E u \in Users : \E m \in {buy_access(u, Maps)} :
        /\ paid_users' = m.paid
        /\ free_attempts' = m.free
        /\ last_response_cache' = m.cache
        /\ cycle' = [cycle EXCEPT ![u] = "none"]
        /\ last' = Event("buy", u, TRUE, NoHour, EmptyDict,
                         IF u \in paid_users THEN "already" ELSE "granted",
                         IF u \in paid_users THEN <<>> ELSE <<PAID_TEXT>>, 0)
        /\ UNCHANGED <<now, DISHES, tasks, hist, last_request_time, fsm_state, fsm_data>>

Next ==
    \/ Tick
    \/ StartCommand
    \/ TextMessage
    \/ TimeSuggestion
    \/ HealthAnswer
    \/ DietAnswer
    \/ BuyAccess

Spec == Init /\ [][Next]_vars

TypeOK ==
    /\ paid_users \subseteq Users
    /\ DOMAIN free_attempts \subseteq Users
    /\ DOMAIN last_request_time \subseteq Users
    /\ DOMAIN last_response_cache \subseteq Users
    /\ \A u \in Users : fsm_state[u] \in {"None", "asking_health", "asking_diet"}
    /\ \A u \in Users : DOMAIN fsm_data[u] \subseteq {"healthy", "diet", "pending_hour"}

-----------------------------------------------------------------------------
(* Vocabulary of the properties *)

IsRequest(e) == e.ev \in {"text", "suggest"}

\* handle_cooking_internal ran: a request, or the replay of an accepted diet answer
RanCoreFlow(e) == IsRequest(e) \/ (e.ev = "diet" /\ e.handled)

\* the rate-limit rule stated on the state: user u may pass at the current time
RateAllowed(u) ==
    u \notin DOMAIN last_request_time \/ now - last_request_time[u] >= RATE_LIMIT

\* text is a recommendation: the header, then at most 3 dishes of the slot, each
\* as marker, name, recipe, then the upsell suffix if and only if with_suffix
IsRecommendation(text, slot, with_suffix) ==
    LET n == Len(text) - (IF with_suffix THEN 2 ELSE 1)
        body == SubSeq(text, 2, n + 1)
    IN  /\ n >= 0
        /\ text[1] = REPLY_HEADER[1]
        /\ with_suffix => text[Len(text)] = UPSELL_SUFFIX[1]
        /\ UPSELL_SUFFIX[1] \notin Range(body)
        /\ n % 3 = 0
        /\ n \div 3 <= 3
        /\ \A i \in 1..(n \div 3) :
              /\ body[3 * i - 2] = "*"
              /\ \E d \in Range(DISHES) :
                    d.time = slot /\ d.name = body[3 * i - 1] /\ d.recipe = body[3 * i]

\* the key a cached string was stored under: the tokens between marker and separator
StoredKey(cached_resp) ==
    LET i == CHOOSE j \in 1..Len(cached_resp) :
                 cached_resp[j] = CACHE_SEP[1]
                 /\ \A k \in 1..(j - 1) : cached_resp[k] # CACHE_SEP[1]
    IN  SubSeq(cached_resp, 2, i - 1)

\* the text that follows the separator of a cached string
StoredText(cached_resp) ==
    SubSeq(cached_resp, Len(StoredKey(cached_resp)) + 3, Len(cached_resp))

\* a key read back as hour, healthy flag and diet
DecodeKey(key) ==
    LET n == Len(key) IN
    << IF n = 6 THEN 10 * DigitVal(key[1]) + DigitVal(key[2]) ELSE DigitVal(key[1]),
       key[n - 2] = "True",
       key[n] >>

-----------------------------------------------------------------------------
(* C1: for a user who is not entitled and has used no free attempt, the     *)
(* sequence cooking request, health answer, diet answer ends with a         *)
(* recommendation reply (at most 3 dishes of the slot of the requested      *)
(* hour, then the upsell suffix), whatever the delay; the reply to the diet *)
(* answer is never the wait notice and never the upsell prompt.             *)
(* cycle[u] = "diet" says exactly that the last three events of u were a    *)
(* request answered with the health prompt, an accepted health answer and   *)
(* an accepted diet answer.                                                 *)
C1_FreeAttemptGetsRecommendation ==
    \A u \in Users :
        (cycle[u] = "diet" /\ u \notin paid_users) =>
            /\ last.branch \notin {"limited", "must_pay"}
            /\ Len(last.replies) = 1
            /\ IsRecommendation(last.replies[1], get_time_category(last.hour), TRUE)

(* C2: quota monotonicity. For a user who is not entitled and whose         *)
(* free_attempts is 1, every run of the core flow (text, time button or     *)
(* diet replay) is answered with the wait notice or, when it passes the     *)
(* rate limit, with the upsell prompt, never with a recommendation, and     *)
(* free_attempts stays 1 in every step that does not grant entitlement.     *)
C2_QuotaMonotonicity ==
    [][\A u \in Users :
          (u \notin paid_users /\ Get(free_attempts, u, 0) = 1) =>
              /\ u \notin paid_users' => Get(free_attempts', u, 0) = 1
              /\ (RanCoreFlow(last') /\ last'.user = u) =>
                    /\ last'.branch \in {"limited", "must_pay"}
                    /\ RateAllowed(u) =>
                          (last'.branch = "must_pay" /\ last'.replies = <<PAY_PROMPT>>)
                    /\ ~RateAllowed(u) => last'.replies = <<WAIT_NOTICE>>
      ]_vars

C2_Witness ==
    /\ last.ev = "diet" /\ last.handled /\ last.branch = "must_pay"
    /\ last.user \notin paid_users
    /\ Get(free_attempts, last.user, 0) = 1

(* C3: a text or time-button request that arrives less than 60 s after the  *)
(* user's last_request_time gets only the wait notice, runs no dish         *)
(* selection, and leaves paid_users, free_attempts, last_request_time, the  *)
(* cache and the FSM state and data unchanged.                              *)
C3_LimitedRequestHasNoEffect ==
    [][\A u \in Users :
          ( /\ IsRequest(last') /\ last'.user = u
            /\ u \in DOMAIN last_request_time
            /\ now' - last_request_time[u] < RATE_LIMIT ) =>
              /\ last'.replies = <<WAIT_NOTICE>>
              /\ last'.calls = 0
              /\ UNCHANGED store
      ]_vars

C3_Witness ==
    /\ IsRequest(last) /\ last.branch = "limited"
    /\ now - last_request_time[last.user] = RATE_LIMIT - 1
    /\ fsm_state[last.user] = "asking_diet"

(* C4: the rate-limit rule. A request at time now passes the rate limit     *)
(* exactly when the user has no last_request_time or now minus it is at     *)
(* least 60 s, in every entitlement and session state; a request that       *)
(* passes sets last_request_time to now and a limited one leaves it alone;  *)
(* the same rule governs the replay of a diet answer, and no other event    *)
(* touches last_request_time.                                               *)
C4_RateLimitRule ==
    [][\A u \in Users :
          IF RanCoreFlow(last') /\ last'.user = u
          THEN /\ (last'.branch # "limited") <=> RateAllowed(u)
               /\ RateAllowed(u) =>
                     (u \in DOMAIN last_request_time' /\ last_request_time'[u] = now')
               /\ ~RateAllowed(u) => last_request_time' = last_request_time
               /\ \A v \in Users \ {u} :
                     Get(last_request_time', v, NoHour) = Get(last_request_time, v, NoHour)
          ELSE Get(last_request_time', u, NoHour) = Get(last_request_time, u, NoHour)
      ]_vars

\* A request allowed exactly 60 s after the previous one: the user has used the
\* free attempt, so an earlier request passed, and it passed at StartTime (one at
\* StartTime + 59 would have made this one limited).
C4_Witness ==
    /\ IsRequest(last) /\ last.branch = "must_pay"
    /\ last_request_time[last.user] = now
    /\ now = StartTime + RATE_LIMIT

(* C5: entitlement idempotence. A buy_access call for a user who has not    *)
(* paid adds the user to paid_users and removes the user's free_attempts    *)
(* and cache entries; a call for a user who has paid changes none of the    *)
(* maps (a cache entry stored since the grant stays); no call touches any   *)
(* other state; and after every call one more call would change nothing.    *)
C5_EntitlementIdempotence ==
    [][last'.ev = "buy" =>
          /\ UNCHANGED <<now, DISHES, last_request_time, fsm_state, fsm_data>>
          /\ last'.user \in paid_users =>
                UNCHANGED <<paid_users, free_attempts, last_response_cache>>
          /\ last'.user \notin paid_users =>
                /\ paid_users' = paid_users \cup {last'.user}
                /\ free_attempts' = Pop(free_attempts, last'.user)
                /\ last_response_cache' = Pop(last_response_cache, last'.user)
          /\ buy_access(last'.user, Maps') = Maps'
      ]_vars

C5_Witness ==
    /\ last.ev = "buy" /\ last.branch = "already"
    /\ last.user \in DOMAIN last_response_cache

(* C6: entitlement is permanent and always passes the quota check. A user   *)
(* in paid_users stays in it in every step, no run of the core flow for     *)
(* that user is answered with the upsell prompt or a text holding the       *)
(* upsell suffix, and no step changes the user's free_attempts.             *)
C6_EntitlementPermanent ==
    [][\A u \in paid_users :
          /\ u \in paid_users'
          /\ Get(free_attempts', u, 0) = Get(free_attempts, u, 0)
          /\ (RanCoreFlow(last') /\ last'.user = u) =>
                /\ last'.branch # "must_pay"
                /\ \A i \in 1..Len(last'.replies) :
                      /\ last'.replies[i] # PAY_PROMPT
                      /\ UPSELL_SUFFIX[1] \notin Range(last'.replies[i])
      ]_vars

C6_Witness ==
    /\ last.ev = "diet" /\ last.branch = "fresh"
    /\ last.user \in paid_users
    /\ last.user \notin DOMAIN free_attempts

(* C7: cache lookup rule. When the core flow runs for an entitled user who  *)
(* passes the rate limit and has health and diet stored, the cache is hit   *)
(* if and only if the user has a cached entry, the hour, healthy flag and   *)
(* diet of the request are those of the key the entry was stored under,     *)
(* and now minus the entry's time is less than 5 minutes; otherwise a       *)
(* fresh recommendation is made.                                            *)
C7_CacheLookupRule ==
    [][\A u \in paid_users :
          ( /\ RanCoreFlow(last') /\ last'.user = u
            /\ RateAllowed(u)
            /\ {"healthy", "diet"} \subseteq DOMAIN last'.data ) =>
              /\ last'.branch \in {"hit", "fresh"}
              /\ last'.branch = "hit" <=>
                    /\ u \in DOMAIN last_response_cache
                    /\ DecodeKey(StoredKey(last_response_cache[u][1]))
                          = <<last'.hour, last'.data.healthy, last'.data.diet>>
                    /\ now' - last_response_cache[u][2] < CACHE_TTL
      ]_vars

C7_Witness ==
    /\ last.branch = "hit"
    /\ now - last_response_cache[last.user][2] = CACHE_TTL - 1

(* C8: on a cache hit the one reply is exactly the text stored after the    *)
(* key, it holds no upsell suffix, filter_dishes is not called, and the     *)
(* cache and free_attempts are unchanged. On a fresh recommendation for an  *)
(* entitled user the cache entry of that user becomes the reply text under  *)
(* the request's key with time now.                                         *)
C8_CacheHitAndStore ==
    [][\A u \in Users :
          (RanCoreFlow(last') /\ last'.user = u) =>
              /\ last'.branch = "hit" =>
                    /\ last'.replies = <<StoredText(last_response_cache[u][1])>>
                    /\ IsRecommendation(last'.replies[1],
                                        get_time_category(last'.hour), FALSE)
                    /\ last'.calls = 0
                    /\ last_response_cache' = last_response_cache
                    /\ free_attempts' = free_attempts
              /\ (last'.branch = "fresh" /\ u \in paid_users) =>
                    /\ Len(last'.replies) = 1
                    /\ u \in DOMAIN last_response_cache'
                    /\ last_response_cache'[u][1][1] = CACHE_MARK[1]
                    /\ DecodeKey(StoredKey(last_response_cache'[u][1]))
                          = <<last'.hour, last'.data.healthy, last'.data.diet>>
                    /\ StoredText(last_response_cache'[u][1]) = last'.replies[1]
                    /\ last_response_cache'[u][2] = now'
      ]_vars

C8_Witness ==
    /\ last.ev = "diet" /\ last.branch = "hit"
    /\ last.replies = <<StoredText(last_response_cache[last.user][1])>>
    /\ Len(last.replies[1]) > 1

(* C9: stale session events are dropped. A health answer while the user's   *)
(* FSM state is not asking_health, and a diet answer while it is not        *)
(* asking_diet, is accepted by no handler: no reply is sent and paid_users, *)
(* free_attempts, last_request_time, the cache and the FSM state and data   *)
(* are unchanged.                                                           *)
C9_StaleAnswersDropped ==
    [][\A u \in Users :
          ( /\ last'.user = u
            /\ \/ last'.ev = "health" /\ fsm_state[u] # "asking_health"
               \/ last'.ev = "diet" /\ fsm_state[u] # "asking_diet" ) =>
              /\ ~last'.handled
              /\ last'.replies = <<>>
              /\ UNCHANGED store
      ]_vars

C9_Witness ==
    /\ last.ev = "diet" /\ ~last.handled
    /\ fsm_state[last.user] = "asking_health"
    /\ "pending_hour" \in DOMAIN fsm_data[last.user]

(* C10: preferences are not retained. After an accepted diet answer, in     *)
(* every branch of the replayed core flow, the user's FSM state is None and *)
(* the FSM data is empty; and every text or time-button request that passes *)
(* the rate limit and the quota check is answered with the health prompt,   *)
(* not with a recommendation.                                               *)
C10_PreferencesNotRetained ==
    [][\A u \in Users :
          /\ (last'.ev = "diet" /\ last'.handled /\ last'.user = u) =>
                (fsm_state'[u] = "None" /\ fsm_data'[u] = EmptyDict)
          /\ ( /\ IsRequest(last') /\ last'.user = u
               /\ last'.branch \notin {"limited", "must_pay"} ) =>
                (last'.branch = "ask" /\ last'.replies = <<HEALTH_PROMPT>>)
      ]_vars

\* A request answered with the health prompt after a completed cycle of the user
\* (the cache entry shows that a diet answer was replayed to a recommendation).
C10_Witness ==
    /\ IsRequest(last) /\ last.branch = "ask"
    /\ last.user \in DOMAIN last_response_cache
    /\ DOMAIN fsm_data[last.user] = {"pending_hour"}

(* C11: for an entitled user, a diet answer accepted in asking_diet is      *)
(* always answered with a recommendation for the slot of the stored         *)
(* pending_hour (a fresh selection or the cached text), at every elapsed    *)
(* time since the request that started the cycle, also less than 60 s.      *)
C11_EntitledDietAnswerGetsRecommendation ==
    \A u \in paid_users :
        (last.ev = "diet" /\ last.handled /\ last.user = u) =>
            /\ last.branch \in {"hit", "fresh"}
            /\ Len(last.replies) = 1
            /\ IsRecommendation(last.replies[1], get_time_category(last.hour), FALSE)

(* C19: state invariants of the one-at-a-time runs. free_attempts of every  *)
(* user is 0 or 1; a user in paid_users has no free_attempts entry; a cache *)
(* entry exists only for a user in paid_users; and whenever the FSM state   *)
(* of a user is asking_diet, healthy and pending_hour are stored for it.    *)
C19_StateInvariants ==
    \A u \in Users :
        /\ Get(free_attempts, u, 0) \in {0, 1}
        /\ u \in paid_users => u \notin DOMAIN free_attempts
        /\ u \in DOMAIN last_response_cache => u \in paid_users
        /\ fsm_state[u] = "asking_diet" =>
              {"healthy", "pending_hour"} \subseteq DOMAIN fsm_data[u]

\* A user who used the free attempt, then paid, and is now asked for the diet.
C19_Witness ==
    \E u \in paid_users :
        /\ last.ev = "health" /\ last.handled /\ last.user = u
        /\ fsm_state[u] = "asking_diet"
        /\ u \in DOMAIN last_response_cache
        /\ u \in DOMAIN last_request_time

-----------------------------------------------------------------------------
(* The dish selector on its own: every catalog of at most MaxCatalog        *)
(* distinct dishes of DishPool, every slot, healthy flag and diet.          *)

MaxCatalog == 4

DishPool ==
    { Dish("steak", "dinner", FALSE, "meat"),
      Dish("pelmeni", "dinner", FALSE, "meat"),
      Dish("kotlety", "dinner", FALSE, "meat"),
      Dish("shashlik", "dinner", FALSE, "meat"),
      Dish("salmon", "dinner", TRUE, "fish"),
      Dish("ragout", "dinner", TRUE, "veg"),
      Dish("porridge", "breakfast", TRUE, "veg"),
      Dish("borscht", "lunch", FALSE, "meat") }

Catalogs ==
    { c \in UNION { [1..n -> DishPool] : n \in 0..MaxCatalog } :
          \A i, j \in 1..Len(c) : i /= j => c[i] /= c[j] }

SelectHours == {3, 8, 13, 19}
Diets == {"meat", "fish", "veg", "any"}

InitSelect ==
    /\ now = StartTime
    /\ DISHES \in Catalogs
    /\ paid_users = {}
    /\ free_attempts = EmptyDict
    /\ last_request_time = EmptyDict
    /\ last_response_cache = EmptyDict
    /\ fsm_state = [u \in Users |-> "None"]
    /\ fsm_data = [u \in Users |-> EmptyDict]
    /\ cycle = [u \in Users |-> "none"]
    /\ tasks = NoTasks
    /\ hist = NoHistory
    /\ last = [ev |-> "init"]

\* main.py:171-177 for one request on the catalog drawn: the first call, the
\* dishes listed after the retry, the number of calls made and the reply text
SelectDishes ==
    \E u \in Users, hour \in SelectHours, healthy \in BOOLEAN, diet \in Diets :
        /\ last.ev = "init"
        /\ last' = [ev |-> "select", hour |-> hour, healthy |-> healthy, diet |-> diet,
                    dishes |-> filter_dishes(hour, healthy, diet),
                    listed |-> pick_dishes(hour, healthy, diet),
                    calls |-> selector_calls(hour, healthy, diet),
                    reply |-> make_reply(u, pick_dishes(hour, healthy, diet))]
        /\ UNCHANGED <<now, DISHES, tasks, hist, store, cycle>>

SpecSelect == InitSelect /\ [][SelectDishes]_vars

\* the dishes of the catalog in the slot of the last selection
SlotDishes == SelectSeq(DISHES, LAMBDA d : d.time = get_time_category(last.hour))

(* C12: for every slot, healthy flag, diet in {meat, fish, veg, any} and    *)
(* catalog of distinct dishes, filter_dishes returns the first 3 elements   *)
(* of: the exact matches in catalog order, followed (only when there are    *)
(* fewer than 3 of them) by the remaining dishes of the slot in catalog     *)
(* order. So the result has at most 3 dishes, no dish twice, only dishes of *)
(* the slot, and fewer than 3 only when the slot has fewer than 3 dishes.   *)
C12_SelectorResult ==
    last.ev = "select" =>
        LET slot == get_time_category(last.hour)
            Exact(d) == /\ d.time = slot
                        /\ d.healthy = last.healthy
                        /\ (last.diet = "any" \/ d.diet = last.diet)
            Rest(d) == d.time = slot /\ ~Exact(d)
            exact == SelectSeq(DISHES, Exact)
            expected == IF Len(exact) < 3 THEN exact \o SelectSeq(DISHES, Rest) ELSE exact
            r == last.dishes
        IN  /\ r = SubSeq(expected, 1, IF Len(expected) < 3 THEN Len(expected) ELSE 3)
            /\ Len(r) <= 3
            /\ Cardinality(Range(r)) = Len(r)
            /\ \A i \in 1..Len(r) : r[i].time = slot
            /\ Len(r) < 3 => Len(SlotDishes) < 3

\* Two exact matches, completed by one of two other dishes of the slot.
C12_Witness ==
    /\ last.ev = "select"
    /\ Len(SlotDishes) = 4
    /\ Len(last.dishes) = 3
    /\ last.dishes[2].healthy = last.healthy
    /\ last.dishes[3].healthy /= last.healthy

(* C20: filter_dishes returns the empty list if and only if the catalog has *)
(* no dish in the slot of the hour; then the retry with healthy = True and  *)
(* diet = "any" is empty as well, so the dishes listed are those of the     *)
(* first call; at most two calls are made, the second only after an empty   *)
(* first; and the reply lists a dish exactly when the slot has a dish.      *)
C20_EmptySelectionAndRetry ==
    last.ev = "select" =>
        /\ last.dishes = <<>> <=> SlotDishes = <<>>
        /\ last.listed = last.dishes
        /\ last.calls = (IF last.dishes = <<>> THEN 2 ELSE 1)
        /\ (\E i \in 1..Len(last.reply) : last.reply[i] = "*") <=> SlotDishes /= <<>>

\* A catalog with dishes, none of them in the requested slot: the retry is made.
C20_Witness ==
    /\ last.ev = "select"
    /\ DISHES /= <<>>
    /\ last.dishes = <<>>
    /\ last.calls = 2
    /\ last.listed = <<>>

-----------------------------------------------------------------------------
(* Time inference on its own: parse_hour_from_text on a family of texts at  *)
(* several wall-clock hours, get_time_category on every hour of the day,    *)
(* and the hours of the three time buttons.                                 *)

ClockHours == {3, 8, 13, 19}

Openers == { <<"chto">>, <<"uzhin">>, <<"Uzhin">>, <<"noch">>, <<"seychas">> }
Middles == { <<>>, <<"zavtrak">>, <<"obed">> }
HourText(h) == <<"v">> \o IntStr(h)
Numbers ==
    {<<>>} \cup { HourText(h) : h \in 0..23 }
           \cup { HourText(h) \o <<":", "0", "0">> : h \in 0..23 }

ParseTexts == { a \o b \o n : a \in Openers, b \in Middles, n \in Numbers }

InitTime ==
    /\ now \in { h * 3600 : h \in ClockHours }
    /\ DISHES = Catalog
    /\ paid_users = {}
    /\ free_attempts = EmptyDict
    /\ last_request_time = EmptyDict
    /\ last_response_cache = EmptyDict
    /\ fsm_state = [u \in Users |-> "None"]
    /\ fsm_data = [u \in Users |-> EmptyDict]
    /\ cycle = [u \in Users |-> "none"]
    /\ tasks = NoTasks
    /\ hist = NoHistory
    /\ last = [ev |-> "init"]

ParseHour ==
    \E text \in ParseTexts :
        /\ last.ev = "init"
        /\ last' = [ev |-> "parse", text |-> text, hour |-> parse_hour_from_text(text)]
        /\ UNCHANGED <<now, DISHES, tasks, hist, store, cycle>>

Categorise ==
    \E hour \in 0..23 :
        /\ last.ev = "init"
        /\ last' = [ev |-> "slot", hour |-> hour, slot |-> get_time_category(hour)]
        /\ UNCHANGED <<now, DISHES, tasks, hist, store, cycle>>

SuggestHour ==
    \E b \in TimeButtons :
        /\ last.ev = "init"
        /\ last' = [ev |-> "button", button |-> b, hour |-> time_map(b),
                    slot |-> get_time_category(time_map(b))]
        /\ UNCHANGED <<now, DISHES, tasks, hist, store, cycle>>

NextTime ==
    \/ ParseHour
    \/ Categorise
    \/ SuggestHour

SpecTime == InitTime /\ [][NextTime]_vars

\* the five evening and night words of the third list
EveningKeywords == { <<"uzhin">>, <<"vecher">>, <<"noch">>, <<"seychas">>, <<"pozdno">> }

(* C13: every text that contains an evening or night keyword gives hour 19 *)
(* regardless of the digits also present, at every wall-clock hour. Stated  *)
(* for the texts where the keyword is the only word of the three lists and  *)
(* the digits form an hour of the evening range (18..23, 0..7), written     *)
(* "h" or "h:00".                                                           *)
C13_EveningKeywordWithDigits ==
    \A a \in Openers, h \in (18..23) \cup (0..7) :
        ( /\ last.ev = "parse"
          /\ AnyIn(EveningKeywords, Lower(a))
          /\ last.text \in { a \o HourText(h), a \o HourText(h) \o <<":", "0", "0">> } )
            => last.hour = 19

(* C14: for every hour 0..23 get_time_category returns exactly one of       *)
(* breakfast, lunch, dinner: breakfast exactly for 5..9, lunch exactly for  *)
(* 10..17, dinner exactly for 18..23 and 0..4; and the three time buttons   *)
(* give the hours 8, 13, 19, whose slots are breakfast, lunch, dinner.      *)
C14_SlotTotality ==
    /\ last.ev = "slot" =>
          /\ last.slot \in {"breakfast", "lunch", "dinner"}
          /\ last.slot = "breakfast" <=> last.hour \in 5..9
          /\ last.slot = "lunch" <=> last.hour \in 10..17
          /\ last.slot = "dinner" <=> last.hour \in (18..23) \cup (0..4)
    /\ last.ev = "button" =>
          \/ last.button = "suggest_breakfast" /\ last.hour = 8 /\ last.slot = "breakfast"
          \/ last.button = "suggest_lunch" /\ last.hour = 13 /\ last.slot = "lunch"
          \/ last.button = "suggest_dinner" /\ last.hour = 19 /\ last.slot = "dinner"

\* The boundary hour 10, the first of the lunch range.
C14_Witness == last.ev = "slot" /\ last.hour = 10 /\ last.slot = "lunch"

\* the hour the three lists are meant to give for the hour number h
HourRule(h) == IF h \in {8, 9} THEN 8 ELSE IF h \in 10..17 THEN 13 ELSE 19

(* C15: a text without keyword word whose only digits form one hour number  *)
(* h in 0..23, written "v h" or "v h:00", gives 8 when h is 8 or 9, 13 when *)
(* h is in 10..17, and 19 when h is in 18..23 or 0..7.                      *)
C15_HourNumberRule ==
    \A h \in 0..23 :
        ( /\ last.ev = "parse"
          /\ last.text \in { <<"chto">> \o HourText(h),
                              <<"chto">> \o HourText(h) \o <<":", "0", "0">> } )
            => last.hour = HourRule(h)

-----------------------------------------------------------------------------
(* The handlers as interleaved tasks. A step of a task runs the code from   *)
(* where it was resumed up to and including the next awaited call on the    *)
(* bot API or the FSM storage; is_rate_limited is a coroutine of this file  *)
(* with no await in its body, so awaiting it is no suspension point.        *)

ConcOffsets == {0, 59, 60}
ConcInstants == { StartTime + o : o \in ConcOffsets }

\* the requests of the interleaved runs: a button whose hour differs from the
\* wall-clock hour and one whose hour equals it
ConcButtons == {"suggest_breakfast", "suggest_dinner"}

\* the tasks in flight, and room for one more
Running == BagToSet(tasks)
CanStart == BagCardinality(tasks) < MaxTasks

\* the bag of tasks after task old (Idle: a new update) became task new (Idle: returned)
Replace(old, new) ==
    (IF old.kind = "idle" THEN tasks ELSE tasks (-) SetToBag({old}))
        (+) (IF new.kind = "idle" THEN EmptyBag ELSE SetToBag({new}))

\* the record kept of the last step: what was done, by which handler, for whom
Step(ev, kind, user_id, info) == [ev |-> ev, kind |-> kind, user |-> user_id, info |-> info]

\* the task after handle_cooking_internal returned: process_diet goes on to state.clear()
after_core(kind, user_id) ==
    IF kind = "diet" THEN Task("diet", user_id, "clear", NoHour, EmptyDict) ELSE Idle

\* history: an allowed pass of the rate limiter (the last two are kept)
record_pass(user_id) ==
    LET p == Append(hist.passed_at[user_id], now)
    IN  IF Len(p) > 2 THEN Tail(p) ELSE p

\* history: the free attempt consumed by one more request (counted up to 2)
record_consumed(user_id) ==
    IF user_id \in paid_users \/ hist.consumed[user_id] >= 2
    THEN hist.consumed[user_id]
    ELSE hist.consumed[user_id] + 1

\* handle_cooking_internal, main.py:140-150: the two checks and the first await
core_entry(old, kind, user_id, hour) ==
    /\ last_request_time' = rate_limit_record(user_id)
    /\ IF is_rate_limited(user_id)
       THEN /\ tasks' = Replace(old, after_core(kind, user_id))
            /\ last' = Step("send", kind, user_id, WAIT_NOTICE)
            /\ UNCHANGED <<free_attempts, hist>>
       ELSE IF quota_exceeded(user_id)
       THEN /\ tasks' = Replace(old, after_core(kind, user_id))
            /\ last' = Step("send", kind, user_id, PAY_PROMPT)
            /\ hist' = [hist EXCEPT !.passed_at[user_id] = record_pass(user_id)]
            /\ UNCHANGED free_attempts
       ELSE /\ free_attempts' = quota_consume(user_id)
            /\ tasks' = Replace(old, Task(kind, user_id, "got_data", hour, fsm_data[user_id]))
            /\ last' = Step("read", kind, user_id, fsm_data[user_id])
            /\ hist' = [hist EXCEPT !.passed_at[user_id] = record_pass(user_id),
                                    !.consumed[user_id] = record_consumed(user_id)]

ConcTick ==
    \E t \in ConcInstants :
        /\ t > now
        /\ now' = t
        /\ last' = Step("tick", "none", 0, <<>>)
        /\ UNCHANGED <<DISHES, store, tasks, cycle, hist>>

\* a time button pressed: handle_time_suggestion up to the first await
ConcRequest ==
    \E u \in Users, data \in ConcButtons :
        /\ CanStart
        /\ core_entry(Idle, "request", u, time_map(data))
        /\ UNCHANGED <<now, DISHES, paid_users, last_response_cache, fsm_state,
                       fsm_data, cycle>>

\* main.py:151-184 after get_data returned: the health prompt or the reply
CoreContinue ==
    \E t \in Running :
        /\ t.pc = "got_data"
        /\ IF needs_preferences(t.data)
           THEN /\ tasks' = Replace(t, [t EXCEPT !.pc = "prompted"])
                /\ last' = Step("send", t.kind, t.user, HEALTH_PROMPT)
                /\ UNCHANGED last_response_cache
           ELSE \E cache_key \in {make_cache_key(t.hour, t.data.healthy, t.data.diet)} :
                IF cache_hit(t.user, cache_key)
                THEN /\ tasks' = Replace(t, after_core(t.kind, t.user))
                     /\ last' = Step("send", t.kind, t.user,
                                     cached_reply(last_response_cache[t.user][1], cache_key))
                     /\ UNCHANGED last_response_cache
                ELSE \E reply \in {make_reply(t.user,
                                       pick_dishes(t.hour, t.data.healthy, t.data.diet))} :
                     /\ tasks' = Replace(t, after_core(t.kind, t.user))
                     /\ last' = Step("send", t.kind, t.user, reply)
                     /\ last_response_cache' = cache_store(t.user, cache_key, reply)
        /\ UNCHANGED <<now, DISHES, paid_users, free_attempts, last_request_time,
                       fsm_state, fsm_data, cycle, hist>>

\* main.py:156: state.set_state(asking_health), after the prompt was sent
SetAskingHealth ==
    \E t \in Running :
        /\ t.pc = "prompted"
        /\ fsm_state' = [fsm_state EXCEPT ![t.user] = "asking_health"]
        /\ tasks' = Replace(t, [t EXCEPT !.pc = "state_set"])
        /\ last' = Step("set_state", t.kind, t.user, "asking_health")
        /\ UNCHANGED <<now, DISHES, paid_users, free_attempts, last_request_time,
                       last_response_cache, fsm_data, cycle, hist>>

\* main.py:157: state.update_data(pending_hour=hour)
StorePendingHour ==
    \E t \in Running :
        /\ t.pc = "state_set"
        /\ fsm_data' = [fsm_data EXCEPT ![t.user] = Put(@, "pending_hour", t.hour)]
        /\ tasks' = Replace(t, after_core(t.kind, t.user))
        /\ last' = Step("update_data", t.kind, t.user, t.hour)
        /\ UNCHANGED <<now, DISHES, paid_users, free_attempts, last_request_time,
                       last_response_cache, fsm_state, cycle, hist>>

\* a health button pressed: the state filter, then main.py:195-196
ConcHealthAnswer ==
    \E u \in Users, data \in HealthButtons :
        /\ CanStart
        /\ IF health_filter(u)
           THEN /\ fsm_data' = [fsm_data EXCEPT ![u] = Put(@, "healthy", data = "healthy_yes")]
                /\ tasks' = Replace(Idle, Task("health", u, "updated", NoHour, EmptyDict))
                /\ last' = Step("update_data", "health", u, data)
           ELSE /\ last' = Step("dropped", "health", u, data)
                /\ UNCHANGED <<fsm_data, tasks>>
        /\ UNCHANGED <<now, DISHES, paid_users, free_attempts, last_request_time,
                       last_response_cache, fsm_state, cycle, hist>>

\* main.py:197: edit_text with the diet question
HealthEdit ==
    \E t \in Running :
        /\ t.kind = "health"
        /\ t.pc = "updated"
        /\ tasks' = Replace(t, [t EXCEPT !.pc = "edited"])
        /\ last' = Step("send", "health", t.user, DIET_PROMPT)
        /\ UNCHANGED <<now, DISHES, store, cycle, hist>>

\* main.py:198: state.set_state(asking_diet)
HealthSetState ==
    \E t \in Running :
        /\ t.kind = "health"
        /\ t.pc = "edited"
        /\ fsm_state' = [fsm_state EXCEPT ![t.user] = "asking_diet"]
        /\ tasks' = Replace(t, Idle)
        /\ last' = Step("set_state", "health", t.user, "asking_diet")
        /\ UNCHANGED <<now, DISHES, paid_users, free_attempts, last_request_time,
                       last_response_cache, fsm_data, cycle, hist>>

\* a diet button pressed: the state filter, then main.py:203-205
ConcDietAnswer ==
    \E u \in Users, data \in DietButtons :
        /\ CanStart
        /\ IF diet_filter(u)
           THEN /\ fsm_data' = [fsm_data EXCEPT ![u] = Put(@, "diet", diet_map(data))]
                /\ tasks' = Replace(Idle, Task("diet", u, "updated", NoHour, EmptyDict))
                /\ last' = Step("update_data", "diet", u, data)
           ELSE /\ last' = Step("dropped", "diet", u, data)
                /\ UNCHANGED <<fsm_data, tasks>>
        /\ UNCHANGED <<now, DISHES, paid_users, free_attempts, last_request_time,
                       last_response_cache, fsm_state, cycle, hist>>

\* main.py:206: state.get_data()
DietGetData ==
    \E t \in Running :
        /\ t.kind = "diet"
        /\ t.pc = "updated"
        /\ tasks' = Replace(t, [t EXCEPT !.pc = "read", !.data = fsm_data[t.user]])
        /\ last' = Step("get_data", "diet", t.user, fsm_data[t.user])
        /\ UNCHANGED <<now, DISHES, store, cycle, hist>>

\* main.py:207-208: the pending hour, then handle_cooking_internal
DietReplay ==
    \E t \in Running :
        /\ t.kind = "diet"
        /\ t.pc = "read"
        /\ core_entry(t, "diet", t.user, Get(t.data, "pending_hour", ClockHour))
        /\ UNCHANGED <<now, DISHES, paid_users, last_response_cache, fsm_state,
                       fsm_data, cycle>>

\* main.py:209: state.clear()
DietClear ==
    \E t \in Running :
        /\ t.kind = "diet"
        /\ t.pc = "clear"
        /\ fsm_state' = clear_state(t.user)
        /\ fsm_data' = clear_data(t.user)
        /\ tasks' = Replace(t, Idle)
        /\ last' = Step("clear", "diet", t.user,
                        [state |-> fsm_state[t.user], data |-> fsm_data[t.user]])
        /\ UNCHANGED <<now, DISHES, paid_users, free_attempts, last_request_time,
                       last_response_cache, cycle, hist>>

\* buy_access changes the three maps before its first await (main.py:215-221)
ConcBuyAccess ==
    \E u \in Users : \E m \in {buy_access(u, Maps)} :
        /\ paid_users' = m.paid
        /\ free_attempts' = m.free
        /\ last_response_cache' = m.cache
        /\ last' = Step("buy", "buy", u, u \in paid_users)
        /\ UNCHANGED <<now, DISHES, last_request_time, fsm_state, fsm_data, tasks,
                       cycle, hist>>

NextConc ==
    \/ ConcTick
    \/ ConcRequest
    \/ CoreContinue
    \/ SetAskingHealth
    \/ StorePendingHour
    \/ ConcHealthAnswer
    \/ HealthEdit
    \/ HealthSetState
    \/ ConcDietAnswer
    \/ DietGetData
    \/ DietReplay
    \/ DietClear
    \/ ConcBuyAccess

SpecConc == Init /\ [][NextConc]_vars

\* a task of the user is in flight at one of the given positions
InFlight(user_id, kinds, pcs) ==
    \E t \in Running : t.kind \in kinds /\ t.user = user_id /\ t.pc \in pcs

(* C16: two events of one user handled concurrently leave the state and the *)
(* replies of some one-at-a-time order. In particular the state.clear() of  *)
(* process_diet never erases an asking_health state stored by a cooking     *)
(* request, and the get_data of a cooking request never returns the healthy *)
(* and diet values of a cycle whose process_diet has not finished.          *)
C16_SequentialAppearance ==
    /\ (last.ev = "clear") => last.info.state /= "asking_health"
    /\ (last.ev = "read" /\ last.kind = "request") =>
           ~({"healthy", "diet"} \subseteq DOMAIN last.info
                /\ InFlight(last.user, {"diet"}, {"read", "got_data", "clear"}))

(* C17: the rate-limit check with its last_request_time update and the      *)
(* quota check with its free_attempts increment run without suspension, so  *)
(* any two requests the rate limiter allows are at least 60 s apart, also   *)
(* when they are handled concurrently, and the free attempt of a user is    *)
(* consumed by at most one request.                                         *)
C17_ChecksDoNotRace ==
    \A u \in Users :
        /\ Len(hist.passed_at[u]) = 2 =>
               hist.passed_at[u][2] - hist.passed_at[u][1] >= RATE_LIMIT
        /\ hist.consumed[u] <= 1
        /\ Get(free_attempts, u, 0) <= 1

\* A second request arrives while the first, which consumed the free attempt,
\* is suspended after get_data, and is turned away by the rate limiter.
C17_Witness ==
    /\ last.ev = "send" /\ last.kind = "request" /\ last.info = WAIT_NOTICE
    /\ InFlight(last.user, {"request"}, {"got_data", "prompted"})
    /\ hist.consumed[last.user] = 1
    /\ hist.passed_at[last.user] = <<now>>

(* C18: when a request needs preferences, asking_health is set and          *)
(* pending_hour stored before the health prompt is sent, so a health answer *)
(* pressed at any moment after the prompt was sent is accepted.             *)
C18_HealthAnswerAfterPromptAccepted ==
    (last.ev = "dropped" /\ last.kind = "health") =>
        ~InFlight(last.user, {"request"}, {"prompted"})

====
